---- MODULE Spec2Model ----
(***************************************************************************)
(* Model of python-daemon/signal_recorder.py: the SignalProcessor (cycle   *)
(* counting by rising edge, sliding power window), the DatabaseManager's   *)
(* production-record upsert and the SignalRecorderDaemon main loop.        *)
(*                                                                         *)
(* Python dicts are functions whose DOMAIN is the set of keys present, so  *)
(* "key in dict", dict.get(key, default) and dict.clear() keep their       *)
(* meaning.                                                                *)
(***************************************************************************)
EXTENDS Integers, Sequences, FiniteSets, TLC

\* ------------------------------------------------------------------ bounds

\* machine ids the harnesses and the sensor mappings talk about
Machines == {"M1", "M2"}

\* a machine id no mapping ever names (an "unseen" machine)
Unseen == "M9"

\* number of cycle levels fed to the machines, all together, in SpecCycle
MaxLevels == 4

\* number of reset_hourly_counters calls in SpecCycle
MaxResets == 2

\* power readings are integers in 0..MaxPower
MaxPower == 2

\* number of power readings fed to one machine in SpecPower; the machines
\* get MaxPowerObs + MaxCyclePower readings all together
MaxPowerObs == 62

\* number of power readings fed to the machines, all together, in SpecCycle
MaxCyclePower == 1

\* units passed to update_production_record in SpecLedger: 0..MaxUnits
MaxUnits == 2

\* number of update_production_record calls in SpecLedger
MaxCalls == 3

\* the (date, hour) of the calls in SpecLedger, a date being a day number:
\* the last hour of a day and the first hour of the next are adjacent
LedgerSlots == {<<0, 23>>, <<1, 0>>}

\* number of sampling ticks of the daemon in Spec
MaxTicks == 2

\* the daemon's clock, in hours since day 0, starts in StartClocks, in the
\* last hour of day 0, and stops at MaxClock
StartClocks == {23}
MaxClock == 25

\* config['daemon']['retry_attempts'] of the pin signal daemon is in
\* 1..MaxRetryAttempts
MaxRetryAttempts == 3

\* number of send_pin_signals calls of the pin signal daemon in SpecSender
MaxSends == 5

\* ------------------------------------------------------- program constants

\* capacity of the power window
WindowCap == 60

\* -------------------------------------------------------------------- state

VARIABLES
    power_readings,    \* SignalProcessor.power_readings: machine -> list
    cycle_counts,      \* SignalProcessor.cycle_counts: machine -> int
    last_cycle_state,  \* SignalProcessor.last_cycle_state: machine -> bool
    op,                \* the call made by the last step
    levels,            \* history: every level passed to process_cycle_signal
    resetAt,           \* history: Len(levels[m]) at the last reset
    resets,            \* history: number of reset_hourly_counters calls
    powerHist,         \* history: every value passed to process_power_signal
    productionrecords, \* the store's productionrecords collection, in
                       \* insertion order; a document's _id is its position
    rollups,           \* history: bucket -> the units of the successful
                       \* update_production_record calls for it
    signaldatas,       \* the store's signaldatas collection: the documents
                       \* inserted by the read_sensors call in progress (no
                       \* document is ever read back or changed)
    pc,                \* where SignalRecorderDaemon.run is
    running,           \* SignalRecorderDaemon.running
    signalled,         \* history: signal_handler has been called
    db_client,         \* DatabaseManager.client: "none", "open" or "closed"
    plc_connected,     \* PLCConnector.connected
    sensor_mappings,   \* SignalRecorderDaemon.sensor_mappings
    jobs,              \* the scheduler's jobs, in registration order
    clock,             \* datetime.now(), in hours since day 0
    idx,               \* read_sensors: position in sensor_mappings
    pending,           \* run_pending: the due jobs still to run, in order
    todo,              \* update_production_records: machine ids still to do
    pass_clock,        \* update_production_records: current_time
    ret_pc,            \* update_production_records: where it returns to
    rollup_log,        \* machines logged "Updated production" in this pass
    rollup_failed,     \* history: machines whose store call raised in this pass
    pass_counts,       \* history: the counts this pass has read
    fired,             \* history: the jobs run by this run_pending call
    ticks,             \* history: number of ticks started
    count_hours,       \* history: machine -> the clocks in which the units
                       \* of its current count were counted
    counted,           \* history: machine -> the units read_sensors has
                       \* counted, and whether a rollup of it has failed
    init_result,       \* history: how initialize ended
    did,               \* history: the kinds of things the daemon has done
    sender_pc,         \* where SignalDaemon.run (signal_daemon.py) is
    sender_running,    \* SignalDaemon.running
    retry_count,       \* SignalDaemon.run: retry_count
    max_retries,       \* SignalDaemon.run: max_retries, 0 before run reads it
    sends,             \* history: number of send_pin_signals calls
    failures           \* history: the failed sends since the last success

procVars == <<power_readings, cycle_counts, last_cycle_state>>
histVars == <<levels, resetAt, resets, powerHist>>
ledgerVars == <<productionrecords, rollups>>
daemonVars == <<signaldatas, pc, running, signalled, db_client, plc_connected,
                sensor_mappings, jobs, clock, idx, pending, todo, pass_clock,
                ret_pc, rollup_log, rollup_failed, pass_counts, fired, ticks,
                count_hours, counted, init_result, did>>
vars == <<power_readings, cycle_counts, last_cycle_state, op,
          levels, resetAt, resets, powerHist, productionrecords, rollups,
          signaldatas, pc, running, signalled, db_client, plc_connected,
          sensor_mappings, jobs, clock, idx, pending, todo, pass_clock,
          ret_pc, rollup_log, rollup_failed, pass_counts, fired, ticks,
          count_hours, counted, init_result, did,
          sender_pc, sender_running, retry_count, max_retries, sends,
          failures>>
senderVars == <<sender_pc, sender_running, retry_count, max_retries, sends,
                failures>>

\* ------------------------------------------------------------------- dicts

EmptyDict == << >>

DictGet(d, k, default) == IF k \in DOMAIN d THEN d[k] ELSE default

DictSet(d, k, v) == [x \in (DOMAIN d) \cup {k} |-> IF x = k THEN v ELSE d[x]]

\* ---------------------------------------------------------- SignalProcessor

\* readings[-60:]
LastWindow(readings) ==
    SubSeq(readings, Len(readings) - WindowCap + 1, Len(readings))

\* the mutant of TrimWindow: keeps the oldest 60 readings
TrimWindowKeepOldest(readings) ==
    IF Len(readings) > WindowCap THEN SubSeq(readings, 1, WindowCap)
    ELSE readings

\* "if len(...) > 60: ... = ...[-60:]"
TrimWindow(readings) ==
    IF Len(readings) > WindowCap THEN LastWindow(readings) ELSE readings

process_power_signal(machine_id, power_value) ==
    LET present == IF machine_id \notin DOMAIN power_readings
                   THEN DictSet(power_readings, machine_id, << >>)
                   ELSE power_readings
        appended == Append(present[machine_id], power_value)
    IN power_readings' = DictSet(present, machine_id, TrimWindow(appended))

\* the mutant of RisingEdge: counts every change of level
RisingEdgeAnyChange(cycle_signal, last) == cycle_signal # last

\* "if cycle_signal and not self.last_cycle_state[machine_id]"
RisingEdge(cycle_signal, last) == cycle_signal /\ ~last

\* the mutant of process_cycle_signal: the machine's entries are initialised
\* on every call with a low level, not only on the first call
process_cycle_signal_reinit(machine_id, cycle_signal) ==
    LET fresh  == machine_id \notin DOMAIN cycle_counts \/ ~cycle_signal
        counts == IF fresh THEN DictSet(cycle_counts, machine_id, 0)
                  ELSE cycle_counts
        last   == IF fresh THEN DictSet(last_cycle_state, machine_id, FALSE)
                  ELSE last_cycle_state
    IN /\ cycle_counts' =
            IF RisingEdge(cycle_signal, last[machine_id])
            THEN DictSet(counts, machine_id, counts[machine_id] + 1)
            ELSE counts
       /\ last_cycle_state' = DictSet(last, machine_id, cycle_signal)

process_cycle_signal(machine_id, cycle_signal) ==
    LET fresh  == machine_id \notin DOMAIN cycle_counts
        counts == IF fresh THEN DictSet(cycle_counts, machine_id, 0)
                  ELSE cycle_counts
        last   == IF fresh THEN DictSet(last_cycle_state, machine_id, FALSE)
                  ELSE last_cycle_state
    IN /\ cycle_counts' =
            IF RisingEdge(cycle_signal, last[machine_id])
            THEN DictSet(counts, machine_id, counts[machine_id] + 1)
            ELSE counts
       /\ last_cycle_state' = DictSet(last, machine_id, cycle_signal)

get_hourly_production(machine_id) == DictGet(cycle_counts, machine_id, 0)

\* the mutant of reset_hourly_counters: clears the power readings as well
reset_hourly_counters_all ==
    /\ cycle_counts' = EmptyDict
    /\ power_readings' = EmptyDict
    /\ UNCHANGED last_cycle_state

\* self.cycle_counts.clear()
reset_hourly_counters ==
    /\ cycle_counts' = EmptyDict
    /\ UNCHANGED <<power_readings, last_cycle_state>>

RECURSIVE SumSeq(_)
SumSeq(s) == IF s = << >> THEN 0 ELSE s[1] + SumSeq(Tail(s))

RECURSIVE Gcd(_, _)
Gcd(a, b) == IF b = 0 THEN a ELSE Gcd(b, a % b)

\* the number num/den, den > 0, in lowest terms: the value of the float
\* quotient num / den (exact for the sums and lengths that occur)
Quotient(num, den) ==
    LET g == Gcd(num, den) IN [num |-> num \div g, den |-> den \div g]

\* the float 0.0
Zero == [num |-> 0, den |-> 1]

\* the mutant of Average: divides by the capacity of the window
AverageByCapacity(readings) ==
    IF readings # << >> THEN Quotient(SumSeq(readings), WindowCap) ELSE Zero

\* "sum(readings) / len(readings) if readings else 0.0"
Average(readings) ==
    IF readings # << >> THEN Quotient(SumSeq(readings), Len(readings)) ELSE Zero

get_average_power(machine_id) ==
    Average(DictGet(power_readings, machine_id, << >>))

\* ---------------------------------------------------------- DatabaseManager

\* datetime.strptime(f"{date} {hour:02d}:MM:SS", ...), as seconds since day 0;
\* a date is the number of its day
Strptime(date, hour, minute, second) ==
    ((date * 24 + hour) * 60 + minute) * 60 + second

\* the query: machineId and startTime in [hour:00:00, hour:59:59)
Matches(doc, machine_id, hour, date) ==
    /\ doc.machineId = machine_id
    /\ doc.startTime >= Strptime(date, hour, 0, 0)
    /\ doc.startTime < Strptime(date, hour, 59, 59)

\* collection.find_one(query): the _id of the first match, 0 for None
FindOne(collection, machine_id, hour, date) ==
    LET found == {i \in 1 .. Len(collection) :
                     Matches(collection[i], machine_id, hour, date)}
    IN IF found = {} THEN 0
       ELSE CHOOSE i \in found : \A j \in found : i <= j

HourlyEntry(hour, units_produced) ==
    [hour |-> hour, unitsProduced |-> units_produced,
     defectiveUnits |-> 0, status |-> "running"]

\* the mutant of UpdateOne: adds the units to the record's total
UpdateOneAccumulate(doc, hour, units_produced) ==
    [doc EXCEPT !.unitsProduced = @ + units_produced,
                !.hourlyData = Append(@, HourlyEntry(hour, units_produced))]

\* update_one: $set unitsProduced, $push hourlyData
UpdateOne(doc, hour, units_produced) ==
    [doc EXCEPT !.unitsProduced = units_produced,
                !.hourlyData = Append(@, HourlyEntry(hour, units_produced))]

\* the document of the "Create new record" branch
NewRecord(machine_id, hour, date, units_produced) ==
    [machineId |-> machine_id,
     unitsProduced |-> units_produced,
     defectiveUnits |-> 0,
     startTime |-> Strptime(date, hour, 0, 0),
     hourlyData |-> <<HourlyEntry(hour, units_produced)>>]

\* what the store does in one call: nothing raises, find_one raises, or the
\* write (update_one or insert_one) raises
Faults == {"none", "find_one", "write"}

\* the mutant of update_production_record: a write that raises has stored
\* its document all the same
update_production_record_stored(machine_id, hour, date, units_produced, fault) ==
    LET existing == FindOne(productionrecords, machine_id, hour, date)
    IN IF fault = "find_one" THEN UNCHANGED productionrecords
       ELSE IF existing # 0
       THEN productionrecords' =
                [productionrecords EXCEPT
                    ![existing] = UpdateOne(@, hour, units_produced)]
       ELSE productionrecords' =
                Append(productionrecords,
                       NewRecord(machine_id, hour, date, units_produced))

\* update_production_record: an exception of the store is caught and logged,
\* and the method returns None either way
update_production_record(machine_id, hour, date, units_produced, fault) ==
    LET existing == FindOne(productionrecords, machine_id, hour, date)
    IN IF fault # "none" THEN UNCHANGED productionrecords
       ELSE IF existing # 0
       THEN productionrecords' =
                [productionrecords EXCEPT
                    ![existing] = UpdateOne(@, hour, units_produced)]
       ELSE productionrecords' =
                Append(productionrecords,
                       NewRecord(machine_id, hour, date, units_produced))

\* ------------------------------------------------- SignalProcessor harness

NoHist == [m \in Machines |-> << >>]

\* the buckets (machine, date, hour) of the calls in SpecLedger
Buckets == {<<m, slot[1], slot[2]>> : m \in Machines, slot \in LedgerSlots}

\* the number of values recorded in a history, over all machines
RECURSIVE TotalLen(_, _)
TotalLen(hist, ms) ==
    IF ms = {} THEN 0
    ELSE LET m == CHOOSE x \in ms : TRUE
         IN Len(hist[m]) + TotalLen(hist, ms \ {m})

\* the tally of a machine: the units read_sensors has counted for it in the
\* run; once a store call of a rollup of the machine has raised, the tally
\* is no longer kept
NoneCounted == [failed |-> FALSE, units |-> 0]

Counted(tally) ==
    IF tally.failed THEN tally
    ELSE [tally EXCEPT !.units = @ + 1]

StoreCalled(tally, fault) ==
    IF tally.failed \/ fault # "none" THEN [failed |-> TRUE, units |-> 0]
    ELSE tally

\* SignalRecorderDaemon.__init__: nothing connected, not running, the signal
\* handlers installed
InitDaemon ==
    /\ signaldatas = << >>
    /\ pc = "idle"
    /\ running = FALSE
    /\ signalled = FALSE
    /\ db_client = "none"
    /\ plc_connected = FALSE
    /\ sensor_mappings = << >>
    /\ jobs = << >>
    /\ clock \in StartClocks
    /\ idx = 0
    /\ pending = << >>
    /\ todo = {}
    /\ pass_clock = 0
    /\ ret_pc = "none"
    /\ rollup_log = {}
    /\ rollup_failed = {}
    /\ pass_counts = EmptyDict
    /\ fired = << >>
    /\ ticks = 0
    /\ count_hours = [m \in Machines |-> {}]
    /\ counted = [m \in Machines |-> NoneCounted]
    /\ init_result = "pending"
    /\ did = {}
    /\ sender_pc = "idle"
    /\ sender_running = FALSE
    /\ retry_count = 0
    /\ max_retries = 0
    /\ sends = 0
    /\ failures = 0

\* the harnesses never run the daemon: it stays idle, at the earliest clock
InitProcessor ==
    /\ InitDaemon
    /\ \A c \in StartClocks : clock <= c
    /\ power_readings = EmptyDict
    /\ cycle_counts = EmptyDict
    /\ last_cycle_state = EmptyDict
    /\ op = <<"__init__">>
    /\ levels = NoHist
    /\ resetAt = [m \in Machines |-> 0]
    /\ resets = 0
    /\ powerHist = NoHist
    /\ productionrecords = << >>
    /\ rollups = [b \in Buckets |-> << >>]

\* a caller passes a level to process_cycle_signal
CycleObserve ==
    \E m \in Machines, level \in BOOLEAN :
        /\ TotalLen(levels, Machines) < MaxLevels
        /\ process_cycle_signal(m, level)
        /\ levels' = [levels EXCEPT ![m] = Append(@, level)]
        /\ op' = <<"process_cycle_signal", m, level>>
        /\ UNCHANGED <<power_readings, resetAt, resets, powerHist>>
        /\ UNCHANGED ledgerVars
        /\ UNCHANGED <<daemonVars, senderVars>>

\* a caller resets the hourly counters
Reset ==
    /\ resets < MaxResets
    /\ reset_hourly_counters
    /\ resets' = resets + 1
    /\ resetAt' = [m \in Machines |-> Len(levels[m])]
    /\ op' = <<"reset_hourly_counters">>
    /\ UNCHANGED <<levels, powerHist>>
    /\ UNCHANGED ledgerVars
    /\ UNCHANGED <<daemonVars, senderVars>>

\* the values the harness offers as reading number n + 1: any value for the
\* first reading and for the readings that overflow the window, a ramp between
PowerInput(n) ==
    IF n = 0 \/ n >= WindowCap THEN 0 .. MaxPower ELSE {n % (MaxPower + 1)}

\* a caller passes a reading to process_power_signal
PowerObserve(each, total) ==
    \E m \in Machines :
        \E v \in PowerInput(Len(powerHist[m])) :
            /\ Len(powerHist[m]) < each
            /\ TotalLen(powerHist, Machines) < total
            /\ process_power_signal(m, v)
            /\ powerHist' = [powerHist EXCEPT ![m] = Append(@, v)]
            /\ op' = <<"process_power_signal", m, v>>
            /\ UNCHANGED <<cycle_counts, last_cycle_state,
                           levels, resetAt, resets>>
            /\ UNCHANGED ledgerVars
            /\ UNCHANGED <<daemonVars, senderVars>>
        /\ UNCHANGED <<daemonVars, senderVars>>

PowerObserveFew == PowerObserve(MaxCyclePower, MaxCyclePower)

PowerObserveMany == PowerObserve(MaxPowerObs, MaxPowerObs + MaxCyclePower)

NextCycle == CycleObserve \/ Reset \/ PowerObserveFew

SpecCycle == InitProcessor /\ [][NextCycle]_vars

NextPower == PowerObserveMany

SpecPower == InitProcessor /\ [][NextPower]_vars

\* ------------------------------------------------- DatabaseManager harness

RECURSIVE TotalCalls(_, _)
TotalCalls(hist, bs) ==
    IF bs = {} THEN 0
    ELSE LET b == CHOOSE x \in bs : TRUE
         IN Len(hist[b]) + TotalCalls(hist, bs \ {b})

\* a caller rolls units up into a bucket; the store may fail
Rollup ==
    /\ TotalCalls(rollups, Buckets) < MaxCalls
    /\ \E b \in Buckets, units \in 0 .. MaxUnits, fault \in Faults :
        /\ update_production_record(b[1], b[3], b[2], units, fault)
        /\ rollups' = IF fault = "none"
                      THEN [rollups EXCEPT ![b] = Append(@, units)]
                      ELSE rollups
        /\ op' = <<"update_production_record", b, units, fault>>
        /\ UNCHANGED procVars
        /\ UNCHANGED histVars
        /\ UNCHANGED <<daemonVars, senderVars>>

NextLedger == Rollup

SpecLedger == InitProcessor /\ [][NextLedger]_vars

\* ------------------------------------------------------ SignalRecorderDaemon

CycleMapping(sensor, machine, pin) ==
    [sensor |-> sensor, sensorType |-> "unit-cycle", machine |-> machine,
     pinId |-> pin]

PowerMapping(sensor, machine) ==
    [sensor |-> sensor, sensorType |-> "power", machine |-> machine,
     pinId |-> "DQ.7"]

\* a mapping whose sensor has a type read_sensors has no branch for
OtherMapping(sensor, machine) ==
    [sensor |-> sensor, sensorType |-> "temperature", machine |-> machine,
     pinId |-> "DQ.2"]

\* a malformed mapping: the document has no pinId
NoPinMapping(sensor, machine) ==
    [sensor |-> sensor, sensorType |-> "unit-cycle", machine |-> machine]

\* what get_sensor_mappings may return: the aggregate's documents in the
\* store's order, or [] when the store raises or has no mapping
MappingChoices ==
    { << >>,
      <<CycleMapping("S1", "M1", "DQ.0"), PowerMapping("S2", "M1")>>,
      <<CycleMapping("S1", "M1", "DQ.0"), CycleMapping("S3", "M2", "DQ.1")>>,
      <<OtherMapping("S4", "M1"), NoPinMapping("S5", "M2"),
        CycleMapping("S1", "M1", "DQ.0")>> }

\* the mutant of AfterConnect: the result of the connect is ignored
AfterConnectIgnored(ok, next) == next

\* where run() goes after a connect of initialize: on with initialize, or
\* "Failed to initialize daemon" and return
AfterConnect(ok, next) == IF ok THEN next ELSE "stopped"

\* the daemon's own variables that only the named steps below change
loopVars == <<running, signalled, db_client, plc_connected,
              sensor_mappings, jobs, idx,
              pending, todo, pass_clock, ret_pc, rollup_log, rollup_failed,
              pass_counts, fired, ticks, count_hours, counted, init_result, did>>

\* asyncio.run(daemon.run())
Run ==
    /\ pc = "idle"
    /\ pc' = "connect_db"
    /\ op' = <<"run">>
    /\ UNCHANGED <<procVars, histVars, senderVars, ledgerVars, signaldatas, clock, loopVars>>

\* initialize: self.db.connect()
ConnectDb ==
    /\ pc = "connect_db"
    /\ \E ok \in BOOLEAN :
        /\ pc' = AfterConnect(ok, "connect_plc")
        /\ db_client' = IF ok THEN "open" ELSE db_client
        /\ init_result' = IF ok THEN init_result ELSE "db_failed"
        /\ op' = <<"db.connect", ok>>
    /\ UNCHANGED <<procVars, histVars, senderVars, ledgerVars, signaldatas, clock,
                   running, signalled, plc_connected, sensor_mappings, jobs, idx, pending,
                   todo, pass_clock, ret_pc, rollup_log, rollup_failed,
                   pass_counts, fired, ticks, count_hours, counted, did>>

\* initialize: await self.plc.connect()
ConnectPlc ==
    /\ pc = "connect_plc"
    /\ \E ok \in BOOLEAN :
        /\ pc' = AfterConnect(ok, "load_mappings")
        /\ plc_connected' = ok
        /\ init_result' = IF ok THEN init_result ELSE "plc_failed"
        /\ op' = <<"plc.connect", ok>>
    /\ UNCHANGED <<procVars, histVars, senderVars, ledgerVars, signaldatas, clock,
                   running, signalled, db_client, sensor_mappings, jobs, idx, pending,
                   todo, pass_clock, ret_pc, rollup_log, rollup_failed,
                   pass_counts, fired, ticks, count_hours, counted, did>>

\* initialize: self.sensor_mappings = self.db.get_sensor_mappings()
LoadMappingsFrom(choices) ==
    /\ pc = "load_mappings"
    /\ \E mappings \in choices :
        /\ sensor_mappings' = mappings
        /\ op' = <<"get_sensor_mappings", Len(mappings)>>
    /\ pc' = "register"
    /\ UNCHANGED <<procVars, histVars, senderVars, ledgerVars, signaldatas, clock,
                   running, signalled, db_client, plc_connected, jobs, idx, pending,
                   todo, pass_clock, ret_pc, rollup_log, rollup_failed,
                   pass_counts, fired, ticks, count_hours, counted, init_result, did>>

LoadMappings == LoadMappingsFrom(MappingChoices)

\* the jobs initialize registers with every().hour.at(":00"), in this order
HourlyJobs == <<"update_production_records", "reset_hourly_counters">>

\* the next :00 after now
NextHour(now) == now + 1

\* initialize: schedule.every().hour.at(":00").do(...), once per job, and
\* initialize returns True
Register ==
    /\ pc = "register"
    /\ jobs' = Append(jobs, [name |-> HourlyJobs[Len(jobs) + 1],
                             next_run |-> NextHour(clock)])
    /\ pc' = IF Len(jobs') = Len(HourlyJobs) THEN "start" ELSE "register"
    /\ init_result' = IF Len(jobs') = Len(HourlyJobs) THEN "ok" ELSE init_result
    /\ did' = did \cup {"register"}
    /\ op' = <<"schedule.do", HourlyJobs[Len(jobs) + 1]>>
    /\ UNCHANGED <<procVars, histVars, senderVars, ledgerVars, signaldatas, clock,
                   running, signalled, db_client, plc_connected, sensor_mappings, idx,
                   pending, todo, pass_clock, ret_pc, rollup_log,
                   rollup_failed, pass_counts, fired, ticks, count_hours, counted>>

\* run: self.running = True
Start ==
    /\ pc = "start"
    /\ running' = TRUE
    /\ pc' = "loop"
    /\ op' = <<"start">>
    /\ UNCHANGED <<procVars, histVars, senderVars, ledgerVars, signaldatas, clock,
                   signalled, db_client, plc_connected, sensor_mappings, jobs, idx,
                   pending, todo, pass_clock, ret_pc, rollup_log,
                   rollup_failed, pass_counts, fired, ticks, count_hours, counted, init_result, did>>

\* the mutant of LoopTest: "while True"
LoopTestAlways == TRUE

\* run: the test of "while self.running"
LoopTest == running

\* run: "while self.running" holds, a tick begins
LoopEnter ==
    /\ pc = "loop"
    /\ LoopTest
    /\ ticks < MaxTicks
    /\ ticks' = ticks + 1
    /\ idx' = 1
    /\ pc' = "read_sensors"
    /\ did' = did \cup {"tick"}
    /\ op' = <<"tick">>
    /\ UNCHANGED <<procVars, histVars, senderVars, ledgerVars, signaldatas, clock,
                   running, signalled, db_client, plc_connected, sensor_mappings, jobs,
                   pending, todo, pass_clock, ret_pc, rollup_log,
                   rollup_failed, pass_counts, fired, init_result, count_hours, counted>>

\* update_production_records begins: current_time and the machine ids of
\* the mappings
BeginRollup(return_to) ==
    /\ pass_clock' = clock
    /\ todo' = {sensor_mappings[i].machine : i \in 1 .. Len(sensor_mappings)}
    /\ ret_pc' = return_to
    /\ rollup_log' = {}
    /\ rollup_failed' = {}
    /\ pass_counts' = EmptyDict
    /\ pc' = "rollup"
    /\ did' = did \cup {"rollup"}

\* the mutant of LoopExit: shutdown() disconnects without the final
\* production update
LoopExitNoRollup ==
    /\ pc = "loop"
    /\ ~running
    /\ pc' = "disconnect"
    /\ op' = <<"shutdown">>
    /\ UNCHANGED <<procVars, histVars, senderVars, ledgerVars, signaldatas, clock,
                   loopVars>>

\* run: "while self.running" fails: shutdown() and its final production update
LoopExit ==
    /\ pc = "loop"
    /\ ~LoopTest
    /\ BeginRollup("disconnect")
    /\ op' = <<"shutdown">>
    /\ UNCHANGED <<procVars, histVars, senderVars, ledgerVars, signaldatas, clock,
                   running, signalled, db_client, plc_connected, sensor_mappings, jobs,
                   idx, pending, fired, ticks, count_hours, counted, init_result>>

\* store_signal_data: insert_one, or an exception that is caught and logged
StoreSignalData(sensor, machine, value, ok) ==
    LET document == [sensorId |-> sensor, machineId |-> machine,
                     value |-> value]
    IN signaldatas' = IF ok THEN Append(signaldatas, document) ELSE signaldatas

\* read_analog_input: the value of the PLC (the least and the greatest
\* reading), or 0.0 when not connected or when the read raises
AnalogInputs == {0, MaxPower}

\* read_digital_input: the bit of the PLC, or False when not connected or
\* when the read raises
DigitalInputs == BOOLEAN

\* what a read of the PLC does: it succeeds with a value, or it raises, logs
\* the error and returns the default
AnalogReads ==
    {[plc |-> "ok", value |-> v] : v \in AnalogInputs}
        \cup {[plc |-> "failed", value |-> 0]}

DigitalReads ==
    {[plc |-> "ok", value |-> v] : v \in DigitalInputs}
        \cup {[plc |-> "failed", value |-> FALSE]}

\* the levels of the log entries of one mapping of read_sensors: an error
\* for a read that raised, an error for an insert that raised
ReadLog(plc, stored) ==
    (IF plc = "failed" THEN <<"ERROR">> ELSE << >>)
        \o (IF stored THEN << >> ELSE <<"ERROR">>)

\* the mutant of AfterMapping: an exception raised by a mapping is not
\* caught in the loop and ends it
AfterMappingUncaught(raised) ==
    IF raised THEN "disconnect" ELSE "read_sensors"

\* read_sensors: "except Exception" inside the loop over the mappings: the
\* error is logged and the loop goes on with the next mapping
AfterMapping(raised) == "read_sensors"

\* read_sensors: one mapping of the loop over self.sensor_mappings; op is
\* <<"read_sensor", position, branch, PLC read, insert, log levels>>
ReadSensor ==
    /\ pc = "read_sensors"
    /\ idx <= Len(sensor_mappings)
    /\ LET mapping == sensor_mappings[idx]
       IN IF "pinId" \notin DOMAIN mapping
          THEN /\ pc' = AfterMapping(TRUE)
               /\ op' = <<"read_sensor", idx, "KeyError", "none", "none",
                          <<"ERROR">>>>
               /\ UNCHANGED <<procVars, signaldatas, count_hours, counted>>
          ELSE
          /\ pc' = AfterMapping(FALSE)
          /\ \/ /\ mapping.sensorType = "power"
                /\ \E read \in AnalogReads, stored \in BOOLEAN :
                    LET power_value == read.value
                    IN /\ StoreSignalData(mapping.sensor, mapping.machine,
                                          power_value, stored)
                       /\ process_power_signal(mapping.machine, power_value)
                       /\ op' = <<"read_sensor", idx, "power", read.plc,
                                  IF stored THEN "ok" ELSE "failed",
                                  ReadLog(read.plc, stored)>>
                /\ UNCHANGED <<cycle_counts, last_cycle_state, count_hours, counted>>
             \/ /\ mapping.sensorType = "unit-cycle"
                /\ \E read \in DigitalReads, stored \in BOOLEAN :
                    LET cycle_signal == read.value
                    IN /\ StoreSignalData(mapping.sensor, mapping.machine,
                                          IF cycle_signal THEN 1 ELSE 0,
                                          stored)
                       /\ process_cycle_signal(mapping.machine, cycle_signal)
                       /\ IF DictGet(cycle_counts', mapping.machine, 0)
                                 > get_hourly_production(mapping.machine)
                          THEN /\ count_hours' =
                                      [count_hours EXCEPT
                                          ![mapping.machine] = @ \cup {clock}]
                               /\ counted' =
                                      [counted EXCEPT
                                          ![mapping.machine] = Counted(@)]
                          ELSE UNCHANGED <<count_hours, counted>>
                       /\ op' = <<"read_sensor", idx, "unit-cycle", read.plc,
                                  IF stored THEN "ok" ELSE "failed",
                                  ReadLog(read.plc, stored)>>
                /\ UNCHANGED power_readings
             \/ /\ mapping.sensorType \notin {"power", "unit-cycle"}
                /\ op' = <<"read_sensor", idx, "skipped", "none", "none",
                           << >>>>
                /\ UNCHANGED <<procVars, signaldatas, count_hours, counted>>
    /\ idx' = idx + 1
    /\ UNCHANGED <<histVars, senderVars, ledgerVars, clock,
                   running, signalled, db_client, plc_connected,
                   sensor_mappings, jobs, pending, todo, pass_clock, ret_pc,
                   rollup_log, rollup_failed, pass_counts, fired, ticks,
                   init_result, did>>

\* sorted(job for job in jobs if job.should_run): the positions of the due
\* jobs, by next_run and, among equals, in registration order
RECURSIVE SortedDue(_, _)
SortedDue(js, due) ==
    IF due = {} THEN << >>
    ELSE LET first == CHOOSE i \in due :
                          \A j \in due :
                              \/ js[i].next_run < js[j].next_run
                              \/ js[i].next_run = js[j].next_run /\ i <= j
         IN <<first>> \o SortedDue(js, due \ {first})

\* the mutant of ReadSensorsDone: read_sensors is not awaited
ReadSensorsNotAwaited == TRUE

\* "await self.read_sensors()" has returned: the loop over the mappings,
\* which awaits nothing, is at its end
ReadSensorsDone == idx > Len(sensor_mappings)

\* run: read_sensors is done; schedule.run_pending() collects the due jobs
RunPending ==
    /\ pc = "read_sensors"
    /\ ReadSensorsDone
    /\ pending' = SortedDue(jobs, {i \in 1 .. Len(jobs) :
                                       clock >= jobs[i].next_run})
    /\ fired' = << >>
    /\ signaldatas' = << >>
    /\ pc' = "run_pending"
    /\ op' = <<"run_pending">>
    /\ UNCHANGED <<procVars, histVars, senderVars, ledgerVars, clock,
                   running, signalled, db_client, plc_connected, sensor_mappings, jobs,
                   idx, todo, pass_clock, ret_pc, rollup_log, rollup_failed,
                   pass_counts, ticks, count_hours, counted, init_result, did>>

\* job.run(): the job is done; it is scheduled for the next :00
JobDone ==
    /\ jobs' = [jobs EXCEPT ![Head(pending)].next_run = NextHour(clock)]
    /\ fired' = Append(fired, jobs[Head(pending)].name)
    /\ pending' = Tail(pending)

\* run_pending: the next due job is update_production_records
RunUpdateJob ==
    /\ pc = "run_pending"
    /\ pending # << >>
    /\ jobs[Head(pending)].name = "update_production_records"
    /\ BeginRollup("run_pending")
    /\ op' = <<"update_production_records">>
    /\ UNCHANGED <<procVars, histVars, senderVars, ledgerVars, signaldatas, clock,
                   running, signalled, db_client, plc_connected, sensor_mappings, jobs,
                   idx, pending, fired, ticks, count_hours, counted, init_result>>

\* the mutant of Produced: a count of 0 is rolled up as well
ProducedOrZero(units_produced) == units_produced >= 0

\* update_production_records: "if units_produced > 0"
Produced(units_produced) == units_produced > 0

\* update_production_records: one machine of the loop over machine_ids (a
\* set: any order); op is <<"rollup_machine", machine, count read, the
\* outcomes of the store calls made>>
RollupMachine ==
    /\ pc = "rollup"
    /\ \E machine_id \in todo :
        LET units_produced == get_hourly_production(machine_id)
        IN /\ IF Produced(units_produced)
              THEN \E fault \in Faults :
                      /\ update_production_record(
                             machine_id, pass_clock % 24, pass_clock \div 24,
                             units_produced, fault)
                      /\ rollup_log' = rollup_log \cup {machine_id}
                      /\ rollup_failed' =
                             IF fault = "none" THEN rollup_failed
                             ELSE rollup_failed \cup {machine_id}
                      /\ counted' =
                             [counted EXCEPT ![machine_id] =
                                 StoreCalled(@, fault)]
                      /\ op' = <<"rollup_machine", machine_id,
                                 units_produced, <<fault>>>>
              ELSE /\ UNCHANGED <<productionrecords, rollup_log,
                                  rollup_failed, counted>>
                   /\ op' = <<"rollup_machine", machine_id, units_produced,
                              << >>>>
           /\ pass_counts' = DictSet(pass_counts, machine_id, units_produced)
           /\ todo' = todo \ {machine_id}
    /\ UNCHANGED <<procVars, histVars, senderVars, rollups, signaldatas, clock, pc,
                   running, signalled, db_client, plc_connected,
                   sensor_mappings, jobs, idx, pending, pass_clock, ret_pc,
                   fired, ticks, count_hours, init_result, did>>

\* update_production_records returns
RollupReturn ==
    /\ pc = "rollup"
    /\ todo = {}
    /\ pc' = ret_pc
    /\ IF ret_pc = "run_pending" THEN JobDone
       ELSE UNCHANGED <<jobs, fired, pending>>
    /\ op' = <<"return">>
    /\ UNCHANGED <<procVars, histVars, senderVars, ledgerVars, signaldatas, clock,
                   running, signalled, db_client, plc_connected, sensor_mappings, idx,
                   todo, pass_clock, ret_pc, rollup_log, rollup_failed,
                   pass_counts, ticks, count_hours, counted, init_result, did>>

\* run_pending: the next due job is processor.reset_hourly_counters
RunResetJob ==
    /\ pc = "run_pending"
    /\ pending # << >>
    /\ jobs[Head(pending)].name = "reset_hourly_counters"
    /\ reset_hourly_counters
    /\ count_hours' = [m \in Machines |-> {}]
    /\ JobDone
    /\ op' = <<"reset_hourly_counters">>
    /\ UNCHANGED <<histVars, senderVars, ledgerVars, signaldatas, clock, pc,
                   running, signalled, db_client, plc_connected, sensor_mappings, idx,
                   todo, pass_clock, ret_pc, rollup_log, rollup_failed,
                   pass_counts, ticks, counted, init_result, did>>

\* run: run_pending is done; asyncio.sleep(interval_seconds) and back to the
\* loop test
Sleep ==
    /\ pc = "run_pending"
    /\ pending = << >>
    /\ pc' = "loop"
    /\ op' = <<"sleep">>
    /\ rollup_log' = {}
    /\ rollup_failed' = {}
    /\ pass_counts' = EmptyDict
    /\ fired' = << >>
    /\ UNCHANGED <<procVars, histVars, senderVars, ledgerVars, signaldatas, clock,
                   running, signalled, db_client, plc_connected, sensor_mappings, jobs,
                   idx, pending, todo, pass_clock, ret_pc, ticks, count_hours, counted,
                   init_result, did>>

\* shutdown: self.plc.disconnect(); self.db.disconnect(); run returns
Disconnect ==
    /\ pc = "disconnect"
    /\ plc_connected' = FALSE
    /\ db_client' = IF db_client = "open" THEN "closed" ELSE db_client
    /\ pc' = "stopped"
    /\ op' = <<"disconnect">>
    /\ UNCHANGED <<procVars, histVars, senderVars, ledgerVars, signaldatas, clock,
                   running, signalled, sensor_mappings, jobs, idx, pending, todo,
                   pass_clock, ret_pc, rollup_log, rollup_failed, pass_counts,
                   fired, ticks, count_hours, counted, init_result, did>>

\* signal_handler: SIGINT or SIGTERM, at any point until run has returned
SignalHandler ==
    /\ pc # "stopped"
    /\ running' = FALSE
    /\ signalled' = TRUE
    /\ UNCHANGED <<procVars, histVars, senderVars, ledgerVars, signaldatas, clock, pc, op,
                   db_client, plc_connected, sensor_mappings, jobs, idx,
                   pending, todo, pass_clock, ret_pc, rollup_log,
                   rollup_failed, pass_counts, fired, ticks, count_hours, counted, init_result, did>>

\* an hour of wall-clock time ends while the daemon is between two steps
ClockAdvance ==
    /\ pc \notin {"idle", "stopped"}
    /\ clock < MaxClock
    /\ clock' = clock + 1
    /\ UNCHANGED <<procVars, histVars, senderVars, ledgerVars, signaldatas, pc, op, loopVars>>

Init ==
    /\ InitDaemon
    /\ power_readings = EmptyDict
    /\ cycle_counts = EmptyDict
    /\ last_cycle_state = EmptyDict
    /\ op = <<"__init__">>
    /\ levels = NoHist
    /\ resetAt = [m \in Machines |-> 0]
    /\ resets = 0
    /\ powerHist = NoHist
    /\ productionrecords = << >>
    /\ rollups = [b \in Buckets |-> << >>]

Next ==
    \/ Run
    \/ ConnectDb
    \/ ConnectPlc
    \/ LoadMappings
    \/ Register
    \/ Start
    \/ LoopEnter
    \/ LoopExit
    \/ ReadSensor
    \/ RunPending
    \/ RunUpdateJob
    \/ RollupMachine
    \/ RollupReturn
    \/ RunResetJob
    \/ Sleep
    \/ Disconnect
    \/ SignalHandler
    \/ ClockAdvance

Spec == Init /\ [][Next]_vars

\* the mapping lists of the fair runs: those that read the sensors of one
\* machine
FairMappingChoices ==
    MappingChoices \
        {<<CycleMapping("S1", "M1", "DQ.0"), CycleMapping("S3", "M2", "DQ.1")>>}

\* the steps of run itself: everything but the signal and the clock
RunStep ==
    \/ Run
    \/ ConnectDb
    \/ ConnectPlc
    \/ LoadMappingsFrom(FairMappingChoices)
    \/ Register
    \/ Start
    \/ LoopEnter
    \/ LoopExit
    \/ ReadSensor
    \/ RunPending
    \/ RunUpdateJob
    \/ RollupMachine
    \/ RollupReturn
    \/ RunResetJob
    \/ Sleep
    \/ Disconnect

NextFair ==
    \/ RunStep
    \/ SignalHandler
    \/ ClockAdvance

\* the daemon under a fair event loop: the one task of asyncio.run is
\* resumed whenever it can go on, and every call it makes returns
SpecFair == Init /\ [][NextFair]_vars /\ WF_vars(RunStep)

\* ---------------------------------------- SignalDaemon (signal_daemon.py)

\* the mutant of RetryAfter: the counter is not reset at max_retries
RetryAfterNoReset(success, count, limit) ==
    IF success THEN 0 ELSE count + 1

\* run: retry_count after a send: 0 on success; on failure one more, and 0
\* again ("continuing...") when that reaches max_retries
RetryAfter(success, count, limit) ==
    IF success THEN 0
    ELSE IF count + 1 >= limit THEN 0
    ELSE count + 1

\* run: self.running = True, retry_count = 0, max_retries from the config
SenderRun ==
    /\ sender_pc = "idle"
    /\ sender_running' = TRUE
    /\ retry_count' = 0
    /\ max_retries' \in 1 .. MaxRetryAttempts
    /\ sender_pc' = "loop"
    /\ UNCHANGED <<sends, failures>>
    /\ UNCHANGED <<procVars, op, histVars, ledgerVars, daemonVars>>

\* run: "while self.running" holds: generate_signals, send_pin_signals
\* (True, or False for a status other than 200 or an exception, which it
\* catches), and the update of retry_count
SenderSend ==
    /\ sender_pc = "loop"
    /\ sender_running
    /\ sends < MaxSends
    /\ \E success \in BOOLEAN :
        /\ retry_count' = RetryAfter(success, retry_count, max_retries)
        /\ failures' = IF success THEN 0 ELSE failures + 1
    /\ sends' = sends + 1
    /\ sender_pc' = "sleep"
    /\ UNCHANGED <<sender_running, max_retries>>
    /\ UNCHANGED <<procVars, op, histVars, ledgerVars, daemonVars>>

\* run: asyncio.sleep(interval_seconds) and back to the loop test
SenderSleep ==
    /\ sender_pc = "sleep"
    /\ sender_pc' = "loop"
    /\ UNCHANGED <<sender_running, retry_count, max_retries, sends, failures>>
    /\ UNCHANGED <<procVars, op, histVars, ledgerVars, daemonVars>>

\* run: "while self.running" fails: shutdown() and run returns
SenderExit ==
    /\ sender_pc = "loop"
    /\ ~sender_running
    /\ sender_pc' = "stopped"
    /\ UNCHANGED <<sender_running, retry_count, max_retries, sends, failures>>
    /\ UNCHANGED <<procVars, op, histVars, ledgerVars, daemonVars>>

\* signal_handler of SignalDaemon: SIGINT or SIGTERM, until run has returned
SenderSignal ==
    /\ sender_pc # "stopped"
    /\ sender_running' = FALSE
    /\ UNCHANGED <<sender_pc, retry_count, max_retries, sends, failures>>
    /\ UNCHANGED <<procVars, op, histVars, ledgerVars, daemonVars>>

NextSender ==
    \/ SenderRun
    \/ SenderSend
    \/ SenderSleep
    \/ SenderExit
    \/ SenderSignal

SpecSender == Init /\ [][NextSender]_vars

\* ------------------------------------------------------------ C1 .. C5

\* the level observed before position i of a history (FALSE before the first)
LevelBefore(s, i) == IF i = 1 THEN FALSE ELSE s[i - 1]

\* the positions after position from whose level is true and whose previous
\* level is false
RisingPositions(s, from) ==
    {i \in (from + 1) .. Len(s) : s[i] /\ ~LevelBefore(s, i)}

Min(a, b) == IF a < b THEN a ELSE b

\* the most recent k values of a history, in observation order
LastN(s, k) == [i \in 1 .. k |-> s[Len(s) - k + i]]

Window(m) == DictGet(power_readings, m, << >>)

\* C1: with no reset so far, get_hourly_production(m) is the number of
\* positions of the machine's level history that are true with a false
\* predecessor (false before the first observation).
C1_CountIsRisingEdges ==
    resets = 0 =>
        \A m \in Machines :
            get_hourly_production(m) = Cardinality(RisingPositions(levels[m], 0))

\* a history with a sustained high, a falling edge and two rising edges
C1_Witness ==
    /\ resets = 0
    /\ \E m \in Machines :
        /\ levels[m] = <<TRUE, TRUE, FALSE, TRUE>>
        /\ get_hourly_production(m) = 2

\* C2: the count of a machine is the number of rising edges observed after
\* the last reset, where the level before the first observation after the
\* reset is the last level observed before it: a signal held high across
\* the reset counts nothing until it has been observed low and high again.
C2_NoCountWhileHeldHigh ==
    \A m \in Machines :
        get_hourly_production(m) =
            Cardinality(RisingPositions(levels[m], resetAt[m]))

\* C3: every power window holds at most 60 values, and after n readings it
\* is the most recent min(n, 60) of them in observation order.
C3_WindowIsLastSixty ==
    \A m \in Machines :
        /\ Len(Window(m)) <= WindowCap
        /\ Window(m) = LastN(powerHist[m], Min(Len(powerHist[m]), WindowCap))

\* a machine has been fed 62 readings and the evicted ones differ from the
\* ones that replaced them
C3_Witness ==
    \E m \in Machines :
        /\ Len(powerHist[m]) = WindowCap + 2
        /\ Len(Window(m)) = WindowCap
        /\ powerHist[m][1] # powerHist[m][WindowCap + 1]
        /\ powerHist[m][2] # powerHist[m][WindowCap + 2]

\* C4: get_average_power is 0.0 for a machine with no reading and otherwise
\* the sum of the most recent min(n, 60) readings divided by their number.
C4_AverageIsMeanOfLastSixty ==
    \A m \in Machines \cup {Unseen} :
        LET hist == IF m \in Machines THEN powerHist[m] ELSE << >>
            k    == Min(Len(hist), WindowCap)
            avg  == get_average_power(m)
        IN IF k = 0 THEN avg = Zero
           ELSE /\ avg.den > 0
                /\ avg.num * k = avg.den * SumSeq(LastN(hist, k))

\* one machine has had 61 readings, the first of which (now evicted) differs
\* from the last, and another machine has had none
C4_Witness ==
    \E m, other \in Machines :
        /\ Len(powerHist[m]) = WindowCap + 1
        /\ powerHist[m][1] # powerHist[m][WindowCap + 1]
        /\ powerHist[other] = << >>
        /\ get_average_power(other) = Zero
        /\ get_average_power(m) # Zero

\* C5: a reset_hourly_counters step leaves get_hourly_production at 0 for
\* every machine, seen or not, and leaves every power window and every
\* average power as it was.
C5_ResetFrame ==
    [][(op' = <<"reset_hourly_counters">> /\ resets' = resets + 1) =>
          /\ \A m \in Machines \cup {Unseen} : get_hourly_production(m)' = 0
          /\ power_readings' = power_readings
          /\ \A m \in Machines \cup {Unseen} :
                get_average_power(m)' = get_average_power(m)]_vars

\* a reset has just run on a machine that had counted a unit and has a
\* non-empty power window
C5_Witness ==
    /\ op = <<"reset_hourly_counters">>
    /\ \E m \in Machines :
        /\ resetAt[m] = Len(levels[m])
        /\ RisingPositions(levels[m], 0) # {}
        /\ Window(m) # << >>
        /\ get_average_power(m) # Zero
        /\ get_hourly_production(m) = 0

\* ------------------------------------------------------------ C6 .. C7

\* the _ids of the records whose start time lies in the hour of bucket b
RecordsOf(b) ==
    {i \in 1 .. Len(productionrecords) :
        /\ productionrecords[i].machineId = b[1]
        /\ productionrecords[i].startTime \div 3600 = b[2] * 24 + b[3]}

\* C6: an update_production_record call with 0 units for a bucket that has
\* no record leaves the store as it was.
C6_ZeroRollupIsNoOp ==
    [][(\E b \in Buckets, fault \in Faults :
           /\ op' = <<"update_production_record", b, 0, fault>>
           /\ RecordsOf(b) = {})
        => productionrecords' = productionrecords]_vars

AllPositive ==
    \A b \in Buckets : \A i \in 1 .. Len(rollups[b]) : rollups[b][i] > 0

\* C7: after successful update_production_record calls with positive counts
\* every bucket has at most one record, none if it had no call, and the
\* record's unitsProduced is the value of the bucket's latest call and its
\* hourlyData has one entry per call.
C7_OneRecordPerBucket ==
    AllPositive =>
        \A b \in Buckets :
            /\ Cardinality(RecordsOf(b)) <= 1
            /\ (rollups[b] = << >>) = (RecordsOf(b) = {})
            /\ \A i \in RecordsOf(b) :
                /\ productionrecords[i].unitsProduced =
                       rollups[b][Len(rollups[b])]
                /\ Len(productionrecords[i].hourlyData) = Len(rollups[b])

\* a bucket rolled up with 1, then 2, then 2 again: the total was overwritten
\* and the repeated call appended an entry
C7_Witness ==
    /\ AllPositive
    /\ \E b \in Buckets :
        /\ rollups[b] = <<1, 2, 2>>
        /\ \E i \in RecordsOf(b) :
            /\ productionrecords[i].unitsProduced = 2
            /\ Len(productionrecords[i].hourlyData) = 3

\* ------------------------------------------------------------ C8 .. C10

\* run_pending is about to run the reset job
ResetJobNext ==
    /\ pc = "run_pending"
    /\ pending # << >>
    /\ jobs[Head(pending)].name = "reset_hourly_counters"

\* C8: whenever run_pending is about to run reset_hourly_counters on a
\* positive count, the same run_pending call has already run
\* update_production_records to its end and that rollup has read the count:
\* the reset zeroes no count that the rollup of its firing has not read.
C8_RollupBeforeReset ==
    ResetJobNext =>
        \A m \in DOMAIN cycle_counts :
            cycle_counts[m] > 0 =>
                /\ fired = <<"update_production_records">>
                /\ todo = {}
                /\ m \in DOMAIN pass_counts
                /\ pass_counts[m] = cycle_counts[m]

\* C9: update_production_records tells a failed update_production_record
\* call from a successful one: a machine whose store call raised is not
\* logged as updated.
C9_FailureReported == rollup_failed \cap rollup_log = {}

\* C10: once the store connect or the PLC connect of initialize has failed,
\* the daemon is stopped and has never started a tick, registered or fired
\* a job, run a rollup, set running or written anything.
C10_FailedConnectStops ==
    init_result \in {"db_failed", "plc_failed"} =>
        /\ pc = "stopped"
        /\ ~running
        /\ did = {}
        /\ ticks = 0
        /\ jobs = << >>
        /\ fired = << >>
        /\ signaldatas = << >>
        /\ productionrecords = << >>
        /\ cycle_counts = EmptyDict
        /\ power_readings = EmptyDict

\* the PLC connect failed after the store connect succeeded: run has
\* returned and the store connection is still open
C10_Witness ==
    /\ init_result = "plc_failed"
    /\ pc = "stopped"
    /\ db_client = "open"

\* ----------------------------------------------------------- C11 .. C20

\* initialize has loaded the sensor mappings
MappingsLoaded ==
    pc \notin {"idle", "connect_db", "connect_plc", "load_mappings"}
    /\ init_result \notin {"db_failed", "plc_failed"}

\* C11: when get_sensor_mappings has returned no mapping (the store raised
\* or holds none), initialize fails: no job is registered, running is never
\* set and no tick is started.
C11_NoMappingsHalts ==
    (MappingsLoaded /\ sensor_mappings = << >>) =>
        /\ init_result # "ok"
        /\ jobs = << >>
        /\ ~running
        /\ ticks = 0

\* C12: once signal_handler has been called, at whatever point after the
\* handlers were installed, no step starts a new tick.
C12_NoTickAfterSignal == [][signalled => ticks' = ticks]_vars

\* the machine ids of the sensor mappings
MachineIds == {sensor_mappings[i].machine : i \in 1 .. Len(sensor_mappings)}

\* update_production_records is running for shutdown(), or has run for it
FinalPass == ret_pc = "disconnect"

\* the loop has been left and shutdown's production update has returned
FinalPassDone ==
    \/ pc = "disconnect"
    \/ pc = "stopped" /\ init_result = "ok"

\* the states of C13: the final pass runs while PLC and store are connected;
\* when it has returned it has read the count of every mapped machine, the
\* counts are still the partial-hour counts it read, and every count it
\* stored is in the record of the hour the pass began in
FinalPassState ==
    /\ (FinalPass /\ pc \in {"rollup", "disconnect"}) =>
           (plc_connected /\ db_client = "open")
    /\ FinalPassDone =>
           /\ FinalPass
           /\ todo = {}
           /\ DOMAIN pass_counts = MachineIds
           /\ \A m \in MachineIds :
                  /\ pass_counts[m] = get_hourly_production(m)
                  /\ (m \in rollup_log \ rollup_failed) =>
                         LET i == FindOne(productionrecords, m,
                                          pass_clock % 24, pass_clock \div 24)
                         IN /\ i # 0
                            /\ productionrecords[i].unitsProduced =
                                   pass_counts[m]
    /\ (pc = "stopped" /\ init_result = "ok") =>
           (~plc_connected /\ db_client = "closed")

\* the steps of C13: the final pass begins when the loop test fails, with
\* the hour of that moment, and only then; it is never begun again, visits
\* no machine twice, and after it come only the disconnects and the end
FinalPassStep ==
    /\ (~FinalPass /\ FinalPass') =>
           /\ pc = "loop" /\ ~running
           /\ pc' = "rollup"
           /\ pass_clock' = clock
           /\ todo' = MachineIds
           /\ pass_counts' = EmptyDict
    /\ FinalPass =>
           /\ FinalPass'
           /\ pass_clock' = pass_clock
           /\ todo' \subseteq todo
           /\ DOMAIN pass_counts \subseteq DOMAIN pass_counts'
           /\ pc' \in {"rollup", "disconnect", "stopped"}
    /\ (pc # "stopped" /\ pc' = "stopped" /\ init_result = "ok") =>
           pc = "disconnect"

\* C13: leaving Sampling, the daemon makes exactly one final rollup pass
\* over the partial-hour counts, labelled with the hour it begins in, then
\* disconnects the PLC and the store, and only then is stopped.
C13_OneFinalPass == []FinalPassState /\ [][FinalPassStep]_vars

\* the daemon has stopped after a final pass that stored one unit of M1, in
\* the hour after the one the daemon started in
C13_Witness ==
    /\ pc = "stopped"
    /\ FinalPass
    /\ pass_clock = 24
    /\ "M1" \in rollup_log \ rollup_failed
    /\ pass_counts["M1"] = 1

\* the daemon is in Sampling: at the loop test, in read_sensors, in
\* run_pending or in the rollup of the hourly job
InSampling ==
    \/ pc \in {"loop", "read_sensors", "run_pending"}
    \/ pc = "rollup" /\ ret_pc = "run_pending"

\* the step is a mapping of read_sensors whose PLC read raised, whose insert
\* raised or whose document is malformed, or a machine of a rollup whose
\* store call raised
FailureStep ==
    \/ /\ pc = "read_sensors"
       /\ idx' = idx + 1
       /\ \/ op'[3] = "KeyError"
          \/ op'[4] = "failed"
          \/ op'[5] = "failed"
    \/ /\ pc = "rollup"
       /\ rollup_failed' # rollup_failed

\* C14: a step of Sampling in which a PLC read, a raw-sample insert, a
\* mapping or a rollup write fails leaves the daemon in Sampling, where it
\* was, with running as it is; Sampling is left only at the loop test, after
\* a signal has cleared running, and only a signal clears running.
C14_FailuresKeepSampling ==
    [][/\ (InSampling /\ FailureStep) =>
            (InSampling' /\ running' = running /\ pc' = pc)
       /\ (InSampling /\ ~InSampling') =>
            (pc = "loop" /\ ~running /\ signalled)
       /\ (running /\ ~running') => (signalled' /\ pc' = pc /\ op' = op)]_vars

\* the second tick is reading the mapping after a malformed one, which
\* raised in both ticks, and the last read had its PLC read and its insert
\* fail; running is still set
C14_Witness ==
    /\ pc = "read_sensors"
    /\ running
    /\ ticks = 2
    /\ idx > Len(sensor_mappings)
    /\ \E i \in 1 .. Len(sensor_mappings) :
           "pinId" \notin DOMAIN sensor_mappings[i]
    /\ op[4] = "failed"
    /\ op[5] = "failed"

\* the step is a mapping of read_sensors whose PLC read raised
FailedReadStep ==
    /\ pc = "read_sensors"
    /\ idx' = idx + 1
    /\ op'[4] = "failed"

\* the step is one mapping of read_sensors
MappingStep ==
    /\ pc = "read_sensors"
    /\ idx' = idx + 1

\* C16: every mapping of read_sensors, whatever its sensor type, calls
\* store_signal_data once: the insert succeeds and signaldatas has one
\* document more, or it raises and the sample is ingested all the same.
C16_OneRawSamplePerMapping ==
    [][MappingStep =>
          /\ op'[5] \in {"ok", "failed"}
          /\ op'[5] = "ok" => Len(signaldatas') = Len(signaldatas) + 1
          /\ op'[5] = "failed" => signaldatas' = signaldatas]_vars

\* C15: a mapping of read_sensors whose PLC read failed inserts no raw
\* sample and leaves the cycle counts, the last levels and the power
\* windows as they were.
C15_FailedReadNoSample ==
    [][FailedReadStep =>
          /\ signaldatas' = signaldatas
          /\ \A m \in Machines :
                /\ DictGet(cycle_counts', m, 0) = DictGet(cycle_counts, m, 0)
                /\ DictGet(last_cycle_state', m, FALSE) =
                       DictGet(last_cycle_state, m, FALSE)
                /\ DictGet(power_readings', m, << >>) =
                       DictGet(power_readings, m, << >>)]_vars

\* the hourly firing in progress has run the rollup and then the reset
RollupAndResetFired ==
    /\ pc = "run_pending"
    /\ fired = HourlyJobs

\* the step is a machine of a rollup whose store call raised
FailedRollupStep ==
    /\ pc = "rollup"
    /\ rollup_failed' # rollup_failed

\* the step is the reset job of run_pending
ResetJobStep ==
    /\ pc = "run_pending"
    /\ Len(fired') = Len(fired) + 1
    /\ fired'[Len(fired')] = "reset_hourly_counters"

\* C18: a rollup whose store call raised changes no cycle count (nor any
\* other processor state) and no record; the reset job that follows still
\* clears every count; after an hourly firing of rollup and reset, a machine
\* whose rollup failed has count 0 and no record of the hour of the pass.
C18_FailedRollupLosesHour ==
    /\ [][/\ FailedRollupStep =>
               /\ UNCHANGED procVars
               /\ UNCHANGED productionrecords
          /\ ResetJobStep =>
               /\ cycle_counts' = EmptyDict
               /\ UNCHANGED productionrecords]_vars
    /\ [](RollupAndResetFired =>
             \A m \in rollup_failed :
                 /\ pass_counts[m] > 0
                 /\ get_hourly_production(m) = 0
                 /\ FindOne(productionrecords, m, pass_clock % 24,
                            pass_clock \div 24) = 0)

\* an hourly firing has run the rollup, which failed for M1's count of 1,
\* and then the reset: the count is gone and no record holds it
C18_Witness ==
    /\ RollupAndResetFired
    /\ "M1" \in rollup_failed
    /\ pass_counts["M1"] = 1
    /\ cycle_counts = EmptyDict
    /\ productionrecords = << >>

\* run_pending is running the hourly jobs: it has due jobs left to run, or
\* is inside the rollup of the update job
HourlyBody ==
    \/ pc = "run_pending" /\ pending # << >>
    \/ pc = "rollup" /\ ret_pc = "run_pending"

\* C19: while the hourly jobs run, every mapping of the tick has been read
\* and ingested; while read_sensors runs, no due job is left to run and no
\* rollup is under way.
C19_TickAndHourlyBodyApart ==
    /\ HourlyBody => idx > Len(sensor_mappings)
    /\ pc = "read_sensors" => (pending = << >> /\ todo = {})

\* the hourly rollup is about to read M1's count of 1, which the two
\* mappings of the tick have finished ingesting
C19_Witness ==
    /\ pc = "rollup"
    /\ ret_pc = "run_pending"
    /\ "M1" \in todo
    /\ get_hourly_production("M1") = 1
    /\ Len(sensor_mappings) = 2
    /\ idx = 3

\* the step is a mapping of read_sensors whose sensor type is neither power
\* nor unit-cycle
OtherTypeStep ==
    /\ MappingStep
    /\ "pinId" \in DOMAIN sensor_mappings[idx]
    /\ sensor_mappings[idx].sensorType \notin {"power", "unit-cycle"}

\* C17: a mapping of read_sensors whose sensor type is neither power nor
\* unit-cycle raises nothing, changes no cycle count, last level or power
\* window, and logs exactly one entry, of level warning.
C17_OtherTypeWarned ==
    [][OtherTypeStep =>
          /\ op'[3] # "KeyError"
          /\ UNCHANGED procVars
          /\ op'[6] = <<"WARNING">>]_vars

\* the step is a process_cycle_signal call for machine m
CycleCallFor(m) == levels'[m] # levels[m]

\* the step is a reset_hourly_counters call
ResetCall == resets' = resets + 1

\* C20: get_hourly_production is a natural number for every machine, seen
\* or not; no step but reset_hourly_counters lowers it; a
\* process_cycle_signal call raises the count of its machine by 0 or 1 and
\* leaves the other counts alone.
C20_CountMonotone ==
    /\ [](\A m \in Machines \cup {Unseen} : get_hourly_production(m) \in Nat)
    /\ [][\A m \in Machines \cup {Unseen} :
             /\ ~ResetCall =>
                    get_hourly_production(m)' >= get_hourly_production(m)
             /\ \A called \in Machines :
                    CycleCallFor(called) =>
                        get_hourly_production(m)' - get_hourly_production(m)
                            \in (IF m = called THEN {0, 1} ELSE {0})]_vars

\* a process_cycle_signal call has just counted a machine's first unit
\* since a reset that cleared a count of that machine
C20_Witness ==
    \E m \in Machines :
        /\ op = <<"process_cycle_signal", m, TRUE>>
        /\ get_hourly_production(m) = 1
        /\ resets >= 1
        /\ \E i \in RisingPositions(levels[m], 0) : i <= resetAt[m]

\* ----------------------------------------------------------- C21 .. C25

\* the step is a machine of a rollup pass, hourly or final
RollupMachineStep ==
    /\ pc = "rollup"
    /\ todo' # todo

\* C21: no record of productionrecords and no hourlyData entry has
\* unitsProduced 0, and a machine of a rollup pass, hourly or final, whose
\* count is 0 makes no store call and changes no record.
C21_ZeroNeverMaterialized ==
    /\ [](\A i \in 1 .. Len(productionrecords) :
             /\ productionrecords[i].unitsProduced > 0
             /\ \A j \in 1 .. Len(productionrecords[i].hourlyData) :
                    productionrecords[i].hourlyData[j].unitsProduced > 0)
    /\ [][(RollupMachineStep /\ op'[3] = 0) =>
             /\ op'[4] = << >>
             /\ UNCHANGED productionrecords]_vars

\* a rollup pass has stored M1's count of 1 and has just skipped M2, whose
\* count is 0
C21_Witness ==
    /\ pc = "rollup"
    /\ op = <<"rollup_machine", "M2", 0, << >>>>
    /\ "M1" \in rollup_log \ rollup_failed
    /\ Len(productionrecords) = 1

\* the step is a machine of the hourly rollup whose count is stored
HourlyStoreStep ==
    /\ RollupMachineStep
    /\ ret_pc = "run_pending"
    /\ op'[4] = <<"none">>

\* C22: when the hourly rollup stores the count of a machine, the bucket it
\* writes to, the hour of the pass, is the clock hour in which every unit of
\* that count was counted.
C22_BucketIsHourOfUnits ==
    [][HourlyStoreStep => count_hours[op'[2]] = {pass_clock}]_vars

\* the sum of unitsProduced over the hourlyData entries of a record
RECURSIVE SumUnits(_)
SumUnits(entries) ==
    IF entries = << >> THEN 0
    ELSE Head(entries).unitsProduced + SumUnits(Tail(entries))

\* the sum of unitsProduced over every hourlyData entry written for machine m
RECURSIVE SumEntries(_, _)
SumEntries(collection, m) ==
    IF collection = << >> THEN 0
    ELSE (IF Head(collection).machineId = m
          THEN SumUnits(Head(collection).hourlyData) ELSE 0)
         + SumEntries(Tail(collection), m)

\* C23: when the daemon has stopped after Sampling and no store call of a
\* rollup has raised, the hourlyData entries written for each mapped machine
\* add up to the units read_sensors counted for it.
C23_CountsConserved ==
    (/\ pc = "stopped"
     /\ init_result = "ok"
     /\ \A m \in Machines : ~counted[m].failed) =>
        \A m \in MachineIds :
            SumEntries(productionrecords, m) = counted[m].units

\* C24: under a fair event loop, once running has been cleared by a signal
\* received in Sampling, the tick and the due jobs in flight finish, the
\* loop test fails, the final pass of shutdown runs to its end and the
\* daemon stops.
C24_SignalLeadsToStopped ==
    (InSampling /\ ~running) ~> (pc = "stopped" /\ FinalPass /\ todo = {})

\* the daemon has stopped on a signal after a tick and a stored rollup
C24_Witness ==
    /\ pc = "stopped"
    /\ signalled
    /\ ~running
    /\ FinalPass
    /\ ticks >= 1
    /\ productionrecords # << >>

\* the step is a send of the pin signal daemon
SendStep == sends' = sends + 1

\* C25: at the loop test of SignalDaemon.run retry_count is in
\* 0 .. max_retries - 1; a successful send sets it to 0, a failed send
\* raises it by one, or sets it to 0 when that reaches max_retries; run
\* leaves the loop only at the loop test with running cleared, however many
\* sends have failed in a row.
C25_RetryCountInRange ==
    /\ [](sender_pc = "loop" =>
             (max_retries >= 1 /\ retry_count \in 0 .. max_retries - 1))
    /\ [][/\ (SendStep /\ failures' = 0) => retry_count' = 0
          /\ (SendStep /\ failures' # 0) =>
                 retry_count' = (retry_count + 1) % max_retries
          /\ (sender_pc # "stopped" /\ sender_pc' = "stopped") =>
                 (sender_pc = "loop" /\ ~sender_running)
          /\ (sender_running /\ ~sender_running') =>
                 (sender_pc' = sender_pc /\ sends' = sends)]_vars

\* more sends have failed in a row than max_retries allows, the counter has
\* been reset once and is counting again, and the loop goes on
C25_Witness ==
    /\ sender_pc = "loop"
    /\ sender_running
    /\ max_retries >= 2
    /\ failures = max_retries + 1
    /\ retry_count = 1

====
